---- MODULE Spec2Model ----
(***************************************************************************)
(* The message lifecycle pipeline of the WhatsApp microservice:            *)
(*   - messageService.SendTemplateMessage  (submission)                    *)
(*   - kafkaConsumer.Consume + messageService.ProcessQueueMessage          *)
(*     + messageService.sendMessage        (delivery)                      *)
(*   - webhookService.ProcessWebhook + webhookService.UpdateMessageStatus  *)
(*     (reconciliation over HTTP)                                          *)
(*   - WebhookHandler.HandleGrpcWebhook / UpdateMessageStatus              *)
(*     (reconciliation over gRPC)                                          *)
(*   - messageRepository (the messages table)                              *)
(* Every handler is a sequence of atomic steps, one per call on a shared   *)
(* collaborator (repository, queue, gateway); the handlers of different    *)
(* goroutines interleave between those steps.                              *)
(***************************************************************************)
EXTENDS Integers, Sequences, FiniteSets, TLC

\* ------------------------------------------------------------------ bounds
\* Number of submissions (rows of the messages table).
MaxMessages == 1
\* Number of reads whose payload the queue hands out again.
MaxRedeliver == 1
\* Number of payloads the topic holds unread.
MaxQueue == 1
\* Number of status entries of a callback body whose tokens are mapped in
\* a row (MapSpec).
MaxTokens == 2
\* Number of pieces a submitted phone number is put together from (NormSpec).
MaxParts == 2

\* --------------------------------------------------------------- constants
\* messageService.isAsync, set once by NewMessageService.
IsAsync == TRUE

\* The nil error.
NoErr == "nil"
ErrDatabase == "database error"
ErrProduce == "broker unavailable"
ErrGateway == "gateway error"
ErrNotFound == "message not found"
ErrExternalIDRequired == "external ID is required"
ErrMissingSignature == "missing webhook signature"
ErrUnmarshal == "invalid character"
ErrMarshal == "json: unsupported type"

\* The nil *Message.
NilMessage == [id |-> 0, status |-> "<nil>"]

\* Identifiers the gateway assigns, in the order it assigns them.
SidTable == <<"wamid.1", "wamid.2", "wamid.3", "wamid.4", "wamid.5", "wamid.6">>
Sid(n) == SidTable[n]

VARIABLES
    messages,     \* the messages table: row id -> [status, errorMessage, externalId]
    queue,        \* the Kafka topic: the payloads past the committed offset
    redelivered,  \* reads so far whose offset was not committed
    nextSid,      \* index of the next identifier the gateway assigns
    sub,          \* the goroutine inside SendTemplateMessage
    con,          \* the consumer goroutine (Consume / ProcessQueueMessage)
    web,          \* the goroutine serving a callback request: ProcessWebhook
                  \* (HTTP) or HandleGrpcWebhook -> UpdateMessageStatus (gRPC)
    ret,          \* what the step just taken returned to the handler's caller,
                  \* with the calls the handler had made on its collaborators;
                  \* NoReturn when the step returned nothing
    ctx           \* the context Consume was started with: "live" or "cancelled"

vars == <<messages, queue, redelivered, nextSid, sub, con, web, ret, ctx>>

\* ------------------------------------------------------- messageRepository
\* INSERT ... RETURNING id: ids are assigned 1, 2, ...
NewRow == [status |-> "queued", errorMessage |-> "", externalId |-> ""]

CreateMessage(db) == Append(db, NewRow)
\* The id the INSERT returns.
NewID(db) == Len(db) + 1

\* SELECT ... WHERE id = $1
HasMessage(db, id) == id \in DOMAIN db

\* Variant: a lookup that falls back to the newest row when nothing matches.
RowsByExternalIDOrNewest(db, externalID) ==
    IF {i \in DOMAIN db : db[i].externalId # "" /\ db[i].externalId = externalID} = {}
    THEN {i \in DOMAIN db : i = Len(db)}
    ELSE {i \in DOMAIN db : db[i].externalId # "" /\ db[i].externalId = externalID}

\* SELECT ... WHERE external_id = $1 : the ids of the matching rows
\* (a NULL external_id matches nothing).
RowsByExternalID(db, externalID) ==
    {i \in DOMAIN db : db[i].externalId # "" /\ db[i].externalId = externalID}

\* Variant: the UPDATE sets both optional columns whatever their arguments.
UpdateMessageStatusOverwrite(db, id, status, errorMessage, externalID) ==
    IF id \in DOMAIN db
    THEN [db EXCEPT ![id] =
            [status |-> status,
             errorMessage |-> errorMessage,
             externalId |-> externalID]]
    ELSE db

\* Variant: the UPDATE without its external_id clause.
UpdateMessageStatusNoExternalID(db, id, status, errorMessage, externalID) ==
    IF id \in DOMAIN db
    THEN [db EXCEPT ![id] =
            [status |-> status,
             errorMessage |-> IF errorMessage # "" THEN errorMessage
                              ELSE @.errorMessage,
             externalId |-> @.externalId]]
    ELSE db

\* Variant: the UPDATE without its error_message clause.
UpdateMessageStatusNoErrorText(db, id, status, errorMessage, externalID) ==
    IF id \in DOMAIN db
    THEN [db EXCEPT ![id] =
            [status |-> status,
             errorMessage |-> @.errorMessage,
             externalId |-> IF externalID # "" THEN externalID
                            ELSE @.externalId]]
    ELSE db

\* UPDATE messages SET status = $1, updated_at = $2 [, error_message = ..]
\* [, external_id = ..] WHERE id = ..
UpdateMessageStatus(db, id, status, errorMessage, externalID) ==
    IF id \in DOMAIN db
    THEN [db EXCEPT ![id] =
            [status |-> status,
             errorMessage |-> IF errorMessage # "" THEN errorMessage
                              ELSE @.errorMessage,
             externalId |-> IF externalID # "" THEN externalID
                            ELSE @.externalId]]
    ELSE db

\* The phone_number, template_id and parameters columns of row id, as
\* CreateMessage stored them; no statement updates them.
StoredContent(id) ==
    [phoneNumber |-> "whatsapp:+1555000" \o ToString(id),
     templateId |-> "order_confirmation",
     parameters |-> "{\"order_id\":\"ORD-" \o ToString(id) \o "\"}"]

\* The zero values of those fields.
ZeroContent == [phoneNumber |-> "", templateId |-> "", parameters |-> ""]

\* A call on the repository or on the queue may fail at any time.
MayFail == TRUE

\* ------------------------------------------------------------- queue wire
\* A payload is the JSON object on the topic, reduced to what the topic's
\* only reader decodes from it: its message_id key when it has one, and
\* the snapshot of phone number, template and parameters that comes with it.
\* Variant: a job marshalled before msg.ID is set.
JobPayloadNoID(id) ==
    [type |-> "QueueMessage", message_id |-> 0, snapshot |-> StoredContent(id)]
\* json.Marshal(QueueMessage{MessageID: msg.ID, PhoneNumber: msg.PhoneNumber,
\* TemplateID: msg.TemplateID, Parameters: msg.Parameters, ...})
JobPayload(id) ==
    [type |-> "QueueMessage", message_id |-> id, snapshot |-> StoredContent(id)]
\* Variant: the event is marshalled with a message_id key.
EventPayloadWithMessageID(externalID) == [type |-> "WebhookEvent", message_id |-> 1]
\* json.Marshal(WebhookEvent{ExternalID: .., Status: .., ...}): an object
\* without a message_id key.
EventPayload(externalID) == [type |-> "WebhookEvent"]
\* Variant: the decoder does not find the message_id key.
DecodeMessageIDZero(p) == 0
\* json.Unmarshal(data, &queueMsg): the MessageID the consumer decodes; a
\* payload without a message_id key leaves the zero value.
DecodeMessageID(p) == IF "message_id" \in DOMAIN p THEN p.message_id ELSE 0
\* The snapshot fields the same Unmarshal fills.
DecodeSnapshot(p) == IF "snapshot" \in DOMAIN p THEN p.snapshot ELSE ZeroContent
\* json.Unmarshal returns an error on bytes that are not a JSON object.
Undecodable(p) == p.type = "malformed"

\* --------------------------------------------------------------- Init
SubIdle == [pc |-> "idle", msg |-> NilMessage, parameters |-> "",
            err |-> NoErr, log |-> <<>>]
ConIdle == [pc |-> "idle", payload |-> <<>>, snapshot |-> ZeroContent,
            id |-> 0, status |-> "", msg |-> ZeroContent,
            request |-> ZeroContent,
            resp |-> "", gwerr |-> NoErr, log |-> <<>>]
WebIdle == [pc |-> "idle", via |-> "", externalId |-> "", id |-> 0]
NoReturn == [op |-> "", msg |-> NilMessage, err |-> NoErr, calls |-> <<>>]

Init ==
    /\ messages = <<>>
    /\ queue = <<>>
    /\ redelivered = 0
    /\ nextSid = 1
    /\ sub = SubIdle
    /\ con = ConIdle
    /\ web = WebIdle
    /\ ret = NoReturn
    /\ ctx = "live"

\* ------------------------------------------- messageService.SendTemplateMessage
\* Variant: the failure is logged and the call reports success.
CreateFailedReturnSwallowed(err, calls) ==
    [op |-> "SendTemplateMessage", msg |-> NilMessage, err |-> NoErr, calls |-> calls]

\* Line 92: the return when CreateMessage failed with err.
CreateFailedReturn(err, calls) ==
    [op |-> "SendTemplateMessage", msg |-> NilMessage, err |-> err, calls |-> calls]

\* The parameters argument, a map[string]interface{}: a map json.Marshal
\* encodes, or one holding a value of a type it rejects (a channel, a func).
ParameterInputs == {"strings", "unsupported"}

\* json.Marshal(v) for a v that holds the parameters returns a nil error.
Marshals(parameters) == parameters # "unsupported"

\* Variant: the repository stores the parameters without marshalling them.
MarshalParametersSkipped(parameters) == TRUE

\* messageRepository.CreateMessage, lines 89-92: the parameters are
\* marshalled before the INSERT; an error is returned with id 0.
MarshalParameters(parameters) == Marshals(parameters)

\* Lines 72-94: build the record, CreateMessage.
STM_Create ==
    /\ sub.pc = "idle"
    /\ Len(messages) < MaxMessages
    /\ \/ \E parameters \in ParameterInputs :
             IF MarshalParameters(parameters)
             THEN /\ messages' = CreateMessage(messages)
                  /\ sub' = [SubIdle EXCEPT !.pc = "produce",
                                            !.msg = [id |-> NewID(messages),
                                                     status |-> NewRow.status],
                                            !.parameters = parameters,
                                            !.log = <<"CreateMessage:ok">>]
                  /\ ret' = NoReturn
             ELSE /\ sub' = SubIdle
                  /\ ret' = CreateFailedReturn(ErrMarshal, <<"CreateMessage:err">>)
                  /\ UNCHANGED messages
       \/ /\ MayFail
          /\ sub' = SubIdle
          /\ ret' = CreateFailedReturn(ErrDatabase, <<"CreateMessage:err">>)
          /\ UNCHANGED messages
    /\ UNCHANGED <<queue, redelivered, nextSid, con, web>>
    /\ UNCHANGED ctx

\* Line 111: the return when the job could not be marshalled: the failure
\* is logged, nothing is produced, the Message is returned with a nil error.
MarshalFailedReturn(msg, calls) ==
    [op |-> "SendTemplateMessage", msg |-> msg, err |-> NoErr, calls |-> calls]

\* Line 130: the return once Produce accepted the job.
QueuedReturn(msg, calls) ==
    [op |-> "SendTemplateMessage", msg |-> msg, err |-> NoErr, calls |-> calls]

\* Variant: the error of the follow-up write, when there is one, is
\* returned in place of the Produce error.
ProduceFailedReturnUpdateErr(produceErr, updateErr, calls) ==
    [op |-> "SendTemplateMessage", msg |-> NilMessage,
     err |-> IF updateErr # NoErr THEN updateErr ELSE produceErr,
     calls |-> calls]

\* Line 121: the return when Produce failed with produceErr and the
\* follow-up write of `failed` ended with updateErr.
ProduceFailedReturn(produceErr, updateErr, calls) ==
    [op |-> "SendTemplateMessage", msg |-> NilMessage, err |-> produceErr,
     calls |-> calls]

\* Variant: no error text is passed to the write.
QueueFailureTextEmpty(produceErr) == ""

\* Line 118: the error text stored when Produce failed.
QueueFailureText(produceErr) == "Failed to queue message: " \o produceErr

\* Lines 96-122 (isAsync) and 123-128 (not isAsync, which NewMessageService
\* never selects): marshal the job and Produce it.
STM_Produce ==
    /\ sub.pc = "produce"
    /\ IF IsAsync
       THEN /\ \/ /\ ~Marshals(sub.parameters)
                  /\ sub' = SubIdle
                  /\ ret' = MarshalFailedReturn(sub.msg,
                                                Append(sub.log, "Marshal:err"))
                  /\ UNCHANGED queue
               \/ /\ Marshals(sub.parameters)
                  /\ Len(queue) < MaxQueue
                  /\ queue' = Append(queue, JobPayload(sub.msg.id))
                  /\ sub' = SubIdle
                  /\ ret' = QueuedReturn(sub.msg, Append(sub.log, "Produce:ok"))
               \/ /\ Marshals(sub.parameters)
                  /\ MayFail
                  /\ sub' = [sub EXCEPT !.pc = "mark",
                                        !.err = ErrProduce,
                                        !.log = Append(@, "Produce:err")]
                  /\ UNCHANGED queue
                  /\ ret' = NoReturn
            /\ UNCHANGED <<messages, nextSid>>
       ELSE /\ nextSid <= Len(SidTable)
            /\ messages' = UpdateMessageStatus(
                   UpdateMessageStatus(messages, sub.msg.id, "processing", "", ""),
                   sub.msg.id, "sent", "", Sid(nextSid))
            /\ nextSid' = nextSid + 1
            /\ sub' = SubIdle
            /\ ret' = QueuedReturn(sub.msg, Append(sub.log, "Gateway:ok"))
            /\ UNCHANGED queue
    /\ UNCHANGED <<redelivered, con, web>>
    /\ UNCHANGED ctx

\* Lines 116-121: Produce failed; write `failed`, log a failure of that
\* write, return the Produce error.
STM_MarkFailed ==
    /\ sub.pc = "mark"
    /\ \/ /\ messages' = UpdateMessageStatus(messages, sub.msg.id, "failed",
                                             QueueFailureText(sub.err), "")
          /\ ret' = ProduceFailedReturn(sub.err, NoErr,
                                        Append(sub.log, "UpdateMessageStatus:ok"))
       \/ /\ MayFail
          /\ ret' = ProduceFailedReturn(sub.err, ErrDatabase,
                                        Append(sub.log, "UpdateMessageStatus:err"))
          /\ UNCHANGED messages
    /\ sub' = SubIdle
    /\ UNCHANGED <<queue, redelivered, nextSid, con, web>>
    /\ UNCHANGED ctx

\* ------------------------------------------------------ kafkaConsumer.Consume
\* Variant: the handler is called in a goroutine of its own, so the loop
\* is back at ReadMessage while a handler call is still running.
AtReadMessageOrHandling(c) == c.pc \notin {"stopped", "returned"}

\* Line 107: the loop is at ReadMessage, which it reaches at its start and
\* each time the handler call of line 121 has returned.
AtReadMessage(c) == c.pc = "idle"

\* Lines 107-121: ReadMessage returned a payload; the handler is called.
ConsumeRead ==
    /\ AtReadMessage(con)
    /\ ctx = "live"
    /\ queue # <<>>
    /\ con' = [ConIdle EXCEPT !.pc = "handle", !.payload = <<Head(queue)>>]
    /\ queue' = Tail(queue)
    /\ UNCHANGED <<messages, redelivered, nextSid, sub, web>>
    /\ ret' = NoReturn
    /\ UNCHANGED ctx

\* NewConsumer, lines 87-96: a consumer group whose offsets are committed
\* every CommitInterval. A read whose offset is not committed before the
\* reader restarts leaves the payload at the head of the unread part of
\* the topic: it is delivered again (at-least-once).
Redeliver ==
    /\ AtReadMessage(con)
    /\ ctx = "live"
    /\ queue # <<>>
    /\ redelivered < MaxRedeliver
    /\ con' = [ConIdle EXCEPT !.pc = "handle", !.payload = <<Head(queue)>>]
    /\ redelivered' = redelivered + 1
    /\ UNCHANGED <<messages, queue, nextSid, sub, web>>
    /\ ret' = NoReturn
    /\ UNCHANGED ctx

\* The handler's calls on the repository (QueryRowContext, ExecContext) and
\* on the gateway (http.NewRequestWithContext) carry the context of Consume:
\* made with a cancelled context they return an error.

\* ------------------------------------------- messageService.ProcessQueueMessage
\* Variant: Consume returns once the handler has returned.
AfterHandlerStop(c) == [ConIdle EXCEPT !.pc = "stopped"]

\* The handler returns err to Consume (lines 121-125), which logs it and
\* reads on.
AfterHandler(c) == ConIdle

\* What ProcessQueueMessage returns.
HandlerReturn(c, err, calls) ==
    [op |-> "ProcessQueueMessage", msg |-> NilMessage, err |-> err, calls |-> calls]

\* msg.Status as GetMessageByID read it. sendMessage never reads it, so
\* every status but `queued` is kept as one value.
StatusRead(status) == IF status = "queued" THEN "queued" ELSE "*"

\* Variant: the failure is logged and the handler goes on to send.
AfterGetFailedGoOn(c) == [c EXCEPT !.pc = "gateway", !.payload = <<>>]

\* Lines 136-139 and 143-146: Unmarshal or GetMessageByID failed;
\* ProcessQueueMessage returns the error to Consume.
AfterGetFailed(c) == AfterHandler(c)

\* Lines 134-146: unmarshal the payload into queueMsg (con.snapshot and the
\* id), GetMessageByID; msg holds the row as it was read (con.id,
\* con.status, con.msg).
PQM_Get ==
    /\ con.pc = "handle"
    /\ LET id == DecodeMessageID(con.payload[1]) IN
       \/ /\ Undecodable(con.payload[1])
          /\ con' = AfterGetFailed(con)
          /\ ret' = HandlerReturn(con, ErrUnmarshal, con.log)
       \/ /\ ~Undecodable(con.payload[1])
          /\ ctx = "live"
          /\ HasMessage(messages, id)
          /\ con' = [con EXCEPT !.pc = "processing", !.payload = <<>>,
                                !.snapshot = DecodeSnapshot(con.payload[1]),
                                !.id = id,
                                !.status = StatusRead(messages[id].status),
                                !.msg = StoredContent(id)]
          /\ ret' = NoReturn
       \/ /\ ~Undecodable(con.payload[1])
          /\ ctx = "live"
          /\ ~HasMessage(messages, id)
          /\ con' = AfterGetFailed(con)
          /\ ret' = HandlerReturn(con, ErrNotFound, con.log)
       \/ /\ ~Undecodable(con.payload[1])
          /\ MayFail
          /\ con' = AfterGetFailed(con)
          /\ ret' = HandlerReturn(con, ErrDatabase, con.log)
    /\ UNCHANGED <<messages, queue, redelivered, nextSid, sub, web>>
    /\ UNCHANGED ctx

\* ---------------------------------------------------- messageService.sendMessage
\* Variant: the failure of the write is logged and the send goes on.
AfterProcessingFailedGoOn(c) ==
    [c EXCEPT !.pc = "gateway", !.log = Append(@, "processing:err")]

\* Lines 160-162: the write of `processing` failed; sendMessage returns the
\* error, ProcessQueueMessage returns it to Consume.
AfterProcessingFailed(c) == AfterHandler(c)

\* Lines 159-162: write `processing`.
SM_Processing ==
    /\ con.pc = "processing"
    /\ \/ /\ ctx = "live"
          /\ messages' = UpdateMessageStatus(messages, con.id, "processing", "", "")
          /\ con' = [con EXCEPT !.pc = "gateway", !.log = Append(@, "processing:ok")]
          /\ ret' = NoReturn
       \/ /\ MayFail
          /\ con' = AfterProcessingFailed(con)
          /\ ret' = HandlerReturn(con, ErrDatabase, Append(con.log, "processing:err"))
          /\ UNCHANGED messages
    /\ UNCHANGED <<queue, redelivered, nextSid, sub, web>>
    /\ UNCHANGED ctx

\* Variant: the request is built from the job that was decoded.
GatewayRequestFromJob(c) == c.snapshot

\* Line 165: the arguments of s.whatsapp.SendTemplateMessage, taken from msg.
GatewayRequest(c) == c.msg

\* Line 165: the gateway call (con.request is what the gateway was sent);
\* it answers with a new identifier or an error.
SM_Gateway ==
    /\ con.pc = "gateway"
    /\ nextSid <= Len(SidTable)
    /\ \/ /\ ctx = "live"
          /\ nextSid' = nextSid + 1
          /\ con' = [con EXCEPT !.pc = "sent", !.resp = Sid(nextSid),
                                !.request = GatewayRequest(con),
                                !.log = Append(@, "Gateway:ok")]
       \/ /\ con' = [con EXCEPT !.pc = "failed", !.gwerr = ErrGateway,
                                !.request = GatewayRequest(con),
                                !.log = Append(@, "Gateway:err")]
          /\ UNCHANGED nextSid
    /\ UNCHANGED <<messages, queue, redelivered, sub, web>>
    /\ ret' = NoReturn
    /\ UNCHANGED ctx

\* Variant: the failure of the write is logged and nil is returned.
SentWriteFailedReturnNil(c, err, calls) == HandlerReturn(c, NoErr, calls)

\* Lines 176-178: the write of `sent` failed with err; sendMessage returns
\* it and ProcessQueueMessage returns it to Consume.
SentWriteFailedReturn(c, err, calls) == HandlerReturn(c, err, calls)

\* Lines 175-180: the gateway accepted; write `sent` with resp.SID.
SM_Sent ==
    /\ con.pc = "sent"
    /\ \/ /\ ctx = "live"
          /\ messages' = UpdateMessageStatus(messages, con.id, "sent", "", con.resp)
          /\ ret' = HandlerReturn(con, NoErr, Append(con.log, "sent:ok"))
       \/ /\ MayFail
          /\ ret' = SentWriteFailedReturn(con, ErrDatabase,
                                          Append(con.log, "sent:err"))
          /\ UNCHANGED messages
    /\ con' = AfterHandler(con)
    /\ UNCHANGED <<queue, redelivered, nextSid, sub, web>>
    /\ UNCHANGED ctx

\* Lines 166-173: the gateway failed; write `failed` with the error text,
\* log a failure of that write, return the gateway error.
SM_Failed ==
    /\ con.pc = "failed"
    /\ \/ /\ ctx = "live"
          /\ messages' = UpdateMessageStatus(messages, con.id, "failed", con.gwerr, "")
          /\ ret' = HandlerReturn(con, con.gwerr, Append(con.log, "failed:ok"))
       \/ /\ MayFail
          /\ ret' = HandlerReturn(con, con.gwerr, Append(con.log, "failed:err"))
          /\ UNCHANGED messages
    /\ con' = AfterHandler(con)
    /\ UNCHANGED <<queue, redelivered, nextSid, sub, web>>
    /\ UNCHANGED ctx

\* ------------------------------------------------------------ callback inputs
\* The externalIds a callback may carry: none, one the gateway has assigned,
\* or one it never assigned.
CallbackIds == {"", "wamid.0"} \cup {Sid(n) : n \in 1..(nextSid - 1)}
\* The provider's status tokens.
MetaTokens == {"sent", "delivered", "read", "failed", "undelivered"}
\* The status strings a gRPC WebhookRequest may carry.
GrpcStatuses == {"queued", "delivered", "failed", "unknown"}
\* The error text that comes with a status: statuses[i].errors[0].message
\* (WebhookRequest.ErrorMessage), "" when there is none.
CallbackErrors(status) == IF status = "failed" THEN {"", "provider error"} ELSE {""}

\* mapMetaStatus, webhook_service.go lines 159-172.
mapMetaStatus(metaStatus) ==
    CASE metaStatus = "sent" -> "sent"
      [] metaStatus = "delivered" -> "delivered"
      [] metaStatus = "read" -> "read"
      [] metaStatus = "failed" -> "failed"
      [] OTHER -> "unknown"

\* Variant: the error text is added to the text the row holds.
ReconcileWriteAppend(db, id, externalID, status, errorMessage) ==
    UpdateMessageStatus(db, id, status,
                        IF errorMessage # "" /\ id \in DOMAIN db
                        THEN db[id].errorMessage \o errorMessage
                        ELSE errorMessage,
                        externalID)

\* The write of the reconciliation path on the row it looked up:
\* s.repo.UpdateMessageStatus(ctx, msg.ID, status, errorMessage, externalID).
ReconcileWrite(db, id, externalID, status, errorMessage) ==
    UpdateMessageStatus(db, id, status, errorMessage, externalID)

\* webhookService.UpdateMessageStatus (and messageService.UpdateMessageStatus)
\* run with no other goroutine in between: check, lookup, write. The lookup
\* is a QueryRow, which keeps one matching row.
ApplyCallback(db, externalID, status, errorMessage) ==
    IF externalID = "" \/ RowsByExternalID(db, externalID) = {}
    THEN db
    ELSE ReconcileWrite(db, CHOOSE id \in RowsByExternalID(db, externalID) : TRUE,
                        externalID, status, errorMessage)

\* What ProcessWebhook returns.
WebhookReturn(err) ==
    [op |-> "ProcessWebhook", msg |-> NilMessage, err |-> err, calls |-> <<>>]
\* What Produce returned to ProcessWebhook when it failed.
ProduceReturn(err) ==
    [op |-> "Produce", msg |-> NilMessage, err |-> err, calls |-> <<>>]
\* What UpdateMessageStatus returns.
UpdateReturn(err) ==
    [op |-> "UpdateMessageStatus", msg |-> NilMessage, err |-> err, calls |-> <<>>]

\* ------------------------------------------------- webhookService.ProcessWebhook
\* A status entry of the body is read in two places: its id by Produce and
\* the lookup, its status and error text by the write; each is drawn where
\* it is first read.

\* The loop of lines 98-133 is at the head of its next status entry.
NextEntry == [WebIdle EXCEPT !.pc = "loop", !.via = "http"]

\* Variant: an entry that fails ends the batch.
AfterFailedEntryReturn == WebIdle

\* Lines 121, 127 (`continue`) and 131 (the error of UpdateMessageStatus is
\* dropped): after an entry that failed the loop is at its next entry.
AfterFailedEntry == NextEntry

\* The X-Hub-Signature-256 header of a request: the HMAC of its body under
\* the app secret, or a value that is not.
SignatureOfBody == "sha256=hmac"
SignatureForged == "sha256=forged"

\* The requests HandleWebhook passes on: one without a signature header,
\* one whose body is not JSON, one about another object, one about a
\* WhatsApp business account, and one about a WhatsApp business account
\* signed by someone else.
WebhookRequests ==
    {[signature |-> "", bodyOk |-> TRUE, object |-> "whatsapp_business_account"],
     [signature |-> SignatureOfBody, bodyOk |-> FALSE, object |-> ""],
     [signature |-> SignatureOfBody, bodyOk |-> TRUE, object |-> "page"],
     [signature |-> SignatureOfBody, bodyOk |-> TRUE,
      object |-> "whatsapp_business_account"],
     [signature |-> SignatureForged, bodyOk |-> TRUE,
      object |-> "whatsapp_business_account"]}

\* Variant: the object of the payload is not looked at.
EarlyReturnAnyObject(request) ==
    IF request.signature = ""
    THEN WebhookReturn(ErrMissingSignature)
    ELSE IF ~request.bodyOk
    THEN WebhookReturn(ErrUnmarshal)
    ELSE NoReturn

\* Lines 77-95: what ProcessWebhook returns before its loop (signature
\* check, unmarshal, object check); NoReturn when it enters the loop.
EarlyReturn(request) ==
    IF request.signature = ""
    THEN WebhookReturn(ErrMissingSignature)
    ELSE IF ~request.bodyOk
    THEN WebhookReturn(ErrUnmarshal)
    ELSE IF request.object # "whatsapp_business_account"
    THEN WebhookReturn(NoErr)
    ELSE NoReturn

\* Lines 76-95: signature check, unmarshal, object check.
PW_Start ==
    /\ web.pc = "idle"
    /\ \E request \in WebhookRequests :
          /\ ret' = EarlyReturn(request)
          /\ web' = IF EarlyReturn(request) = NoReturn THEN NextEntry ELSE WebIdle
    /\ UNCHANGED <<messages, queue, redelivered, nextSid, sub, con>>
    /\ UNCHANGED ctx

\* Lines 98-100, 136: no status entry is left; ProcessWebhook returns nil.
PW_Return ==
    /\ web.pc = "loop"
    /\ web' = WebIdle
    /\ ret' = WebhookReturn(NoErr)
    /\ UNCHANGED <<messages, queue, redelivered, nextSid, sub, con>>
    /\ UNCHANGED ctx

\* Variant: the Produce failure is logged and the entry goes on to its
\* status update.
AfterProduceFailedGoOn == [NextEntry EXCEPT !.pc = "lookup", !.externalId = "wamid.0"]

\* Lines 125-128: Produce failed; `continue` skips the entry's status update.
AfterProduceFailed == AfterFailedEntry

\* Lines 100-128: the next status entry; build the event, Produce it.
PW_Event ==
    /\ web.pc = "loop"
    /\ \/ \E x \in CallbackIds :
             /\ Len(queue) < MaxQueue
             /\ queue' = Append(queue, EventPayload(x))
             /\ web' = [web EXCEPT !.pc = "lookup", !.externalId = x]
             /\ ret' = NoReturn
       \/ /\ MayFail
          /\ web' = AfterProduceFailed
          /\ UNCHANGED queue
          /\ ret' = ProduceReturn(ErrProduce)
    /\ UNCHANGED <<messages, redelivered, nextSid, sub, con>>
    /\ UNCHANGED ctx

\* Line 131 -> webhookService.UpdateMessageStatus lines 141-148: the
\* externalID check and GetMessageByExternalID; the error it returns to
\* ProcessWebhook is dropped there.
PW_Lookup ==
    /\ web.pc = "lookup"
    /\ \/ /\ web.externalId = ""
          /\ web' = AfterFailedEntry
          /\ ret' = UpdateReturn(ErrExternalIDRequired)
       \/ /\ web.externalId # ""
          /\ RowsByExternalID(messages, web.externalId) = {}
          /\ web' = AfterFailedEntry
          /\ ret' = UpdateReturn(ErrNotFound)
       \/ /\ web.externalId # ""
          /\ \E id \in RowsByExternalID(messages, web.externalId) :
                web' = [web EXCEPT !.pc = "update", !.id = id]
          /\ ret' = NoReturn
       \/ /\ web.externalId # ""
          /\ MayFail
          /\ web' = AfterFailedEntry
          /\ ret' = UpdateReturn(ErrDatabase)
    /\ UNCHANGED <<messages, queue, redelivered, nextSid, sub, con>>
    /\ UNCHANGED ctx

\* webhookService.UpdateMessageStatus line 150, with the status mapped at
\* line 102: the repository write; what it returns to ProcessWebhook is
\* dropped there.
PW_Update ==
    /\ web.pc = "update"
    /\ web.via = "http"
    /\ \/ /\ \E t \in MetaTokens :
                \E e \in CallbackErrors(t) :
                   messages' = ReconcileWrite(messages, web.id, web.externalId,
                                              mapMetaStatus(t), e)
          /\ ret' = UpdateReturn(NoErr)
       \/ /\ MayFail
          /\ UNCHANGED messages
          /\ ret' = UpdateReturn(ErrDatabase)
    /\ web' = NextEntry
    /\ UNCHANGED <<queue, redelivered, nextSid, sub, con>>
    /\ UNCHANGED ctx

\* ------------- WebhookHandler.HandleGrpcWebhook -> UpdateMessageStatus
\* webhook_handler.go line 88, webhook_service.go lines 141-148 (and the
\* same code in message_service.go lines 194-202).
UMS_Lookup ==
    /\ web.pc = "idle"
    /\ \/ \E x \in CallbackIds :
             \/ /\ x = ""
                /\ ret' = UpdateReturn(ErrExternalIDRequired)
                /\ UNCHANGED web
             \/ /\ x # ""
                /\ RowsByExternalID(messages, x) = {}
                /\ ret' = UpdateReturn(ErrNotFound)
                /\ UNCHANGED web
             \/ /\ x # ""
                /\ \E id \in RowsByExternalID(messages, x) :
                      web' = [pc |-> "update", via |-> "grpc", externalId |-> x,
                              id |-> id]
                /\ ret' = NoReturn
       \/ /\ MayFail
          /\ ret' = UpdateReturn(ErrDatabase)
          /\ UNCHANGED web
    /\ UNCHANGED <<messages, queue, redelivered, nextSid, sub, con>>
    /\ UNCHANGED ctx

\* webhook_service.go line 150 (message_service.go line 204).
UMS_Update ==
    /\ web.pc = "update"
    /\ web.via = "grpc"
    /\ \/ /\ \E s \in GrpcStatuses :
                \E e \in CallbackErrors(s) :
                   messages' = ReconcileWrite(messages, web.id, web.externalId, s, e)
          /\ ret' = UpdateReturn(NoErr)
       \/ /\ MayFail
          /\ ret' = UpdateReturn(ErrDatabase)
          /\ UNCHANGED messages
    /\ web' = WebIdle
    /\ UNCHANGED <<queue, redelivered, nextSid, sub, con>>
    /\ UNCHANGED ctx

Next ==
    \/ STM_Create \/ STM_Produce \/ STM_MarkFailed
    \/ ConsumeRead \/ Redeliver
    \/ PQM_Get \/ SM_Processing \/ SM_Gateway \/ SM_Sent \/ SM_Failed
    \/ PW_Start \/ PW_Return \/ PW_Event \/ PW_Lookup \/ PW_Update
    \/ UMS_Lookup \/ UMS_Update

Spec == Init /\ [][Next]_vars

\* ------------------------------------------- the pipeline without repository faults
\* A return that reports a repository call that failed: a lookup or a write
\* that returned the database error, or a write whose failure was logged.
RepositoryFault(r) ==
    \/ r.err = ErrDatabase
    \/ \E k \in DOMAIN r.calls :
          r.calls[k] \in {"CreateMessage:err", "UpdateMessageStatus:err",
                          "processing:err", "sent:err", "failed:err"}

\* The step taken reports no failed repository call.
NoFault == ~RepositoryFault(ret')

\* The steps of the pipeline in which no repository call fails.
LiveNext ==
    \/ STM_Create /\ NoFault
    \/ STM_Produce /\ NoFault
    \/ STM_MarkFailed /\ NoFault
    \/ ConsumeRead /\ NoFault
    \/ Redeliver /\ NoFault
    \/ PQM_Get /\ NoFault
    \/ SM_Processing /\ NoFault
    \/ SM_Gateway /\ NoFault
    \/ SM_Sent /\ NoFault
    \/ SM_Failed /\ NoFault
    \/ PW_Start /\ NoFault
    \/ PW_Return /\ NoFault
    \/ PW_Event /\ NoFault
    \/ PW_Lookup /\ NoFault
    \/ PW_Update /\ NoFault
    \/ UMS_Lookup /\ NoFault
    \/ UMS_Update /\ NoFault

\* The steps of the consumer goroutine: main starts Consume with
\* context.Background(), so the loop keeps reading and handling.
ConsumerStep ==
    \/ ConsumeRead \/ Redeliver
    \/ PQM_Get \/ SM_Processing \/ SM_Gateway \/ SM_Sent \/ SM_Failed

LiveSpec ==
    /\ Init
    /\ [][LiveNext]_vars
    /\ WF_vars(ConsumerStep /\ NoFault)

\* The steps of a callback whose handling has begun: the HTTP and gRPC
\* servers run each request in a goroutine of its own, which the Go
\* scheduler keeps running until the handler returns.
CallbackStep == PW_Return \/ PW_Event \/ PW_Lookup \/ PW_Update \/ UMS_Update

\* LiveSpec in which a callback that is being handled is handled to its end.
ReconcileSpec ==
    /\ Init
    /\ [][LiveNext]_vars
    /\ WF_vars(ConsumerStep /\ NoFault)
    /\ WF_vars(CallbackStep /\ NoFault)

\* ------------------------------------------- the handler on any payload of the topic
\* ProcessQueueMessage takes the bytes Consume read. In Spec the topic
\* holds what this service produced; HandlerSpec is submission and delivery
\* with one more producer on the topic, which writes bytes that are not
\* JSON, or a job with any message id and a snapshot that is not the one
\* of the record. That producer writes while the gateway has assigned fewer
\* than MaxMessages identifiers, which bounds the number of sends.
StaleContent ==
    [phoneNumber |-> "whatsapp:+15559999999", templateId |-> "old_template",
     parameters |-> "{}"]

TopicPayloads ==
    {[type |-> "malformed"]}
    \cup {[type |-> "QueueMessage", message_id |-> id, snapshot |-> StaleContent] :
             id \in 0..MaxMessages}

TopicProduce ==
    /\ Len(queue) < MaxQueue
    /\ nextSid <= MaxMessages
    /\ \E p \in TopicPayloads : queue' = Append(queue, p)
    /\ ret' = NoReturn
    /\ UNCHANGED <<messages, redelivered, nextSid, sub, con, web, ctx>>

HandlerNext ==
    \/ STM_Create \/ STM_Produce \/ STM_MarkFailed
    \/ ConsumeRead \/ Redeliver
    \/ PQM_Get \/ SM_Processing \/ SM_Gateway \/ SM_Sent \/ SM_Failed
    \/ TopicProduce

HandlerSpec == Init /\ [][HandlerNext]_vars

\* ------------------------------------------- Consume under a context that is cancelled
\* main starts Consume with context.Background(), which is never cancelled:
\* in Spec ctx stays "live" and lines 109-111 of Consume are never taken.
\* CancelSpec is the pipeline with a caller of Consume that may cancel the
\* context it passed.
ErrCanceled == "context canceled"

\* What Consume returns.
ConsumeReturned(err) ==
    [op |-> "Consume", msg |-> NilMessage, err |-> err, calls |-> <<>>]

\* The caller cancels the context.
Cancel ==
    /\ ctx = "live"
    /\ ctx' = "cancelled"
    /\ ret' = NoReturn
    /\ UNCHANGED <<messages, queue, redelivered, nextSid, sub, con, web>>

\* Variant: the read error is logged and the loop reads on, whatever the
\* context.
AfterCancelledReadContinue == ConIdle

\* Lines 108-111: ReadMessage failed and ctx.Err() is not nil; Consume is
\* left.
AfterCancelledRead == [ConIdle EXCEPT !.pc = "returned"]

\* Lines 107-112: ReadMessage with a cancelled context returns an error.
ConsumeReturn ==
    /\ con.pc = "idle"
    /\ ctx = "cancelled"
    /\ con' = AfterCancelledRead
    /\ ret' = ConsumeReturned(ErrCanceled)
    /\ UNCHANGED <<messages, queue, redelivered, nextSid, sub, web, ctx>>

\* The error of a read that failed for another reason than the context:
\* the broker is away, or the reader was closed (main, line 146).
ErrRead == "read error"

\* What the loop of Consume logs when a read failed and it reads on.
ReadFailed(err) ==
    [op |-> "ReadMessage", msg |-> NilMessage, err |-> err, calls |-> <<>>]

\* Variant: any read error ends Consume.
AfterLiveReadErrorReturn == [ConIdle EXCEPT !.pc = "returned"]

\* Lines 108-115: ReadMessage failed and ctx.Err() is nil; the error is
\* logged and `continue` takes the loop back to ReadMessage.
AfterLiveReadError == ConIdle

\* Lines 107-115: ReadMessage returns an error while the context is live.
ConsumeReadError ==
    /\ AtReadMessage(con)
    /\ ctx = "live"
    /\ con' = AfterLiveReadError
    /\ ret' = ReadFailed(ErrRead)
    /\ UNCHANGED <<messages, queue, redelivered, nextSid, sub, web, ctx>>

CancelNext ==
    \/ STM_Create \/ STM_Produce \/ STM_MarkFailed
    \/ ConsumeRead \/ Redeliver \/ ConsumeReturn \/ ConsumeReadError
    \/ PQM_Get \/ SM_Processing \/ SM_Gateway \/ SM_Sent \/ SM_Failed
    \/ PW_Start \/ PW_Return \/ PW_Event \/ PW_Lookup \/ PW_Update
    \/ UMS_Lookup \/ UMS_Update
    \/ Cancel

\* The goroutine of Consume keeps running: its next step is taken.
CancelSpec ==
    /\ Init
    /\ [][CancelNext]_vars
    /\ WF_vars(ConsumerStep \/ ConsumeReturn)

\* ------------------------------------- ProcessWebhook's checks and mapMetaStatus
\* Lines 77-102 of ProcessWebhook taken alone, on one request: the checks
\* before the loop, then the loop mapping the provider token of each status
\* entry of the body, in order. The request and the tokens of its body are
\* drawn at the start; nothing else runs.
BodyTokens == MetaTokens \cup {"deleted"}

MapInit ==
    /\ messages = <<>>
    /\ queue = <<>>
    /\ redelivered = 0
    /\ nextSid = 1
    /\ sub = SubIdle
    /\ con = ConIdle
    /\ ret = NoReturn
    /\ ctx = "live"
    /\ \E n \in 0..MaxTokens :
          \E tokens \in [1..n -> BodyTokens] :
             \E request \in WebhookRequests :
                web = [pc |-> "start", via |-> "http", request |-> request,
                       tokens |-> tokens, statuses |-> <<>>]

\* Lines 77-95: the checks before the loop.
MapStart ==
    /\ web.pc = "start"
    /\ ret' = EarlyReturn(web.request)
    /\ web' = [web EXCEPT !.pc = IF EarlyReturn(web.request) = NoReturn
                                 THEN "loop" ELSE "idle"]
    /\ UNCHANGED <<messages, queue, redelivered, nextSid, sub, con, ctx>>

\* Line 102: mappedStatus := mapMetaStatus(status.Status) for the next entry.
MapToken ==
    /\ web.pc = "loop"
    /\ Len(web.statuses) < Len(web.tokens)
    /\ web' = [web EXCEPT !.statuses =
                   Append(@, mapMetaStatus(web.tokens[Len(@) + 1]))]
    /\ UNCHANGED <<messages, queue, redelivered, nextSid, sub, con, ret, ctx>>

MapNext == MapStart \/ MapToken

MapSpec == MapInit /\ [][MapNext]_vars

\* ------------------------------------- SendTemplateMessage's phone number
\* Lines 72-75 of SendTemplateMessage taken alone: the phone number of a
\* submission is normalized; the number the call returns is submitted
\* again. The number is drawn at the start; nothing else runs.
WhatsAppPrefix == "whatsapp:"

\* utils.HasWhatsAppPrefix: strings.HasPrefix(phoneNumber, "whatsapp:").
HasWhatsAppPrefix(phoneNumber) ==
    /\ Len(phoneNumber) >= Len(WhatsAppPrefix)
    /\ SubSeq(phoneNumber, 1, Len(WhatsAppPrefix)) = WhatsAppPrefix

\* Variant: the prefix is added to every number.
NormalizePhoneNumberAlways(phoneNumber) == WhatsAppPrefix \o phoneNumber

\* Lines 73-75: msg.PhoneNumber for the phoneNumber passed in.
NormalizePhoneNumber(phoneNumber) ==
    IF ~HasWhatsAppPrefix(phoneNumber)
    THEN WhatsAppPrefix \o phoneNumber
    ELSE phoneNumber

\* The pieces of the phone numbers callers pass.
NumberParts == {"whatsapp:", "+1234567890", "WhatsApp:", "whatsapp", ":", " "}

RECURSIVE PhoneNumbers(_)
PhoneNumbers(n) ==
    IF n = 0 THEN {""}
    ELSE {""} \cup {part \o rest : part \in NumberParts, rest \in PhoneNumbers(n - 1)}

NormInit ==
    /\ messages = <<>>
    /\ queue = <<>>
    /\ redelivered = 0
    /\ nextSid = 1
    /\ con = ConIdle
    /\ web = WebIdle
    /\ ret = NoReturn
    /\ ctx = "live"
    /\ \E phoneNumber \in PhoneNumbers(MaxParts) :
          sub = [pc |-> "normalize", phoneNumber |-> phoneNumber, stored |-> <<>>]

\* Lines 72-81: a submission of sub.phoneNumber, then one of the number
\* that submission stored; each stores the normalized number.
NormStep ==
    /\ sub.pc = "normalize"
    /\ Len(sub.stored) < 2
    /\ sub' = [sub EXCEPT !.stored =
                   Append(@, NormalizePhoneNumber(
                                 IF @ = <<>> THEN sub.phoneNumber ELSE @[Len(@)]))]
    /\ UNCHANGED <<messages, queue, redelivered, nextSid, con, web, ret, ctx>>

NormSpec == NormInit /\ [][NormStep]_vars

\* ===================================================================== claims
\* The calls a returning handler made on its collaborators, as a set.
Calls(r) == {r.calls[k] : k \in DOMAIN r.calls}
\* Every status a callback can carry on either reconciliation entry.
CallbackStatuses == {mapMetaStatus(t) : t \in MetaTokens} \cup GrpcStatuses
\* Every error text a callback can carry.
CallbackTexts == {"", "provider error"}
\* The statuses of the ordering queued < processing < sent < delivered < read
\* and the place of each in it.
Ranked == {"queued", "processing", "sent", "delivered", "read"}
Rank(s) ==
    CASE s = "queued" -> 0
      [] s = "processing" -> 1
      [] s = "sent" -> 2
      [] s = "delivered" -> 3
      [] s = "read" -> 4
      [] OTHER -> -1

\* C1: no step moves a record's status backward in the ordering
\* queued < processing < sent < delivered < read, whether the step is a
\* write of the send path or a callback applied by the reconciliation path.
C1_StatusNeverMovesBackward ==
    [][\A i \in DOMAIN messages :
          (messages[i].status \in Ranked /\ messages'[i].status \in Ranked)
             => Rank(messages'[i].status) >= Rank(messages[i].status)]_vars

\* C2: once a record's status is `failed`, no step replaces it with
\* another status.
C2_FailedIsNeverReplaced ==
    [][\A i \in DOMAIN messages :
          messages[i].status = "failed" => messages'[i].status = "failed"]_vars

\* C3 as stated: when Produce failed, SendTemplateMessage returns with the
\* record it created in status `failed` with a non-empty errorMessage.
C3_EnqueueFailureEndsFailed ==
    [][(sub.pc = "mark" /\ sub'.pc = "idle")
          => /\ messages'[sub.msg.id].status = "failed"
             /\ messages'[sub.msg.id].errorMessage # ""]_vars

\* C3 as amended: when Produce failed and the follow-up write succeeded,
\* SendTemplateMessage returns with the record it created in status `failed`
\* with the non-empty errorMessage "Failed to queue message: " + the
\* Produce error; when the follow-up write failed too the record is as it
\* was created.
C3_EnqueueFailureEndsFailedIfWritten ==
    [][(sub.pc = "mark" /\ sub'.pc = "idle")
          => IF "UpdateMessageStatus:ok" \in Calls(ret')
             THEN /\ messages'[sub.msg.id].status = "failed"
                  /\ messages'[sub.msg.id].errorMessage # ""
                  /\ messages'[sub.msg.id].errorMessage
                        = "Failed to queue message: " \o sub.err
             ELSE messages' = messages]_vars

\* C3 witness: SendTemplateMessage has returned after a failed Produce and
\* a successful follow-up write, and the record is `failed` with its text.
C3_Witness ==
    /\ ret.op = "SendTemplateMessage"
    /\ ret.calls = <<"CreateMessage:ok", "Produce:err", "UpdateMessageStatus:ok">>
    /\ \E i \in DOMAIN messages :
          /\ messages[i].status = "failed"
          /\ messages[i].errorMessage = "Failed to queue message: " \o ErrProduce

\* C4: once a record's externalId is non-empty no step changes it.
C4_ExternalIdNeverChanges ==
    [][\A i \in DOMAIN messages :
          messages[i].externalId # ""
             => messages'[i].externalId = messages[i].externalId]_vars

\* C5: the write of the reconciliation path leaves the externalId of the
\* record it updates as it was.
C5_ReconcileKeepsExternalId ==
    [][(web.pc = "update" /\ web'.pc # "update")
          => messages'[web.id].externalId = messages[web.id].externalId]_vars

\* C6: when the reconciliation path has applied a callback (externalId,
\* status, errorMessage), applying the same callback a second time leaves
\* every record's status, errorMessage and externalId as the first
\* application left them.
C6_CallbackIdempotent ==
    [][(web.pc = "update" /\ web'.pc # "update")
          => \A e \in CallbackTexts :
                ReconcileWrite(messages, web.id, web.externalId,
                               messages'[web.id].status, e) = messages'
                   => ApplyCallback(messages', web.externalId,
                                    messages'[web.id].status, e) = messages']_vars

\* C6 witness: a record has taken a status from a callback and a further
\* callback for its externalId would change it.
C6_Witness ==
    \E i \in DOMAIN messages :
       /\ messages[i].externalId # ""
       /\ messages[i].status = "delivered"
       /\ ApplyCallback(messages, messages[i].externalId, "failed", "provider error")
             # messages

\* C7: when CreateMessage and Produce both succeeded, SendTemplateMessage
\* returns no error and the Message with status `queued` and the id of the
\* row the repository inserted, having made exactly the calls CreateMessage
\* and Produce (no gateway call), and the job put on the topic carries
\* that id.
C7_QueuedReturn ==
    (/\ ret.op = "SendTemplateMessage"
     /\ "CreateMessage:ok" \in Calls(ret)
     /\ "Produce:ok" \in Calls(ret))
       => /\ ret.err = NoErr
          /\ ret.msg.status = "queued"
          /\ ret.msg.id = Len(messages)
          /\ ret.calls = <<"CreateMessage:ok", "Produce:ok">>
          /\ queue # <<>>
          /\ DecodeMessageID(queue[Len(queue)]) = ret.msg.id

\* C7 witness: SendTemplateMessage has returned the queued Message of row 1.
C7_Witness ==
    /\ ret.op = "SendTemplateMessage"
    /\ ret.err = NoErr
    /\ ret.msg = [id |-> 1, status |-> "queued"]
    /\ queue = <<JobPayload(1)>>

\* C8: when CreateMessage failed (the parameters did not marshal, or the
\* INSERT failed), SendTemplateMessage returns that error and no Message,
\* having called nothing else: no Produce is made for the submission, which
\* is over.
C8_CreateFailureReturn ==
    (ret.op = "SendTemplateMessage" /\ "CreateMessage:err" \in Calls(ret))
       => /\ ret.err \in {ErrDatabase, ErrMarshal}
          /\ ret.msg = NilMessage
          /\ ret.calls = <<"CreateMessage:err">>
          /\ sub = SubIdle

\* C8 witness: SendTemplateMessage has returned after CreateMessage failed.
C8_Witness ==
    /\ ret.op = "SendTemplateMessage"
    /\ ret.calls = <<"CreateMessage:err">>
    /\ ret.err = ErrDatabase

\* C9: when Produce failed, SendTemplateMessage returns the Produce error
\* and no Message, whether the follow-up write of `failed` succeeded or not.
C9_ProduceErrorReturned ==
    (ret.op = "SendTemplateMessage" /\ "Produce:err" \in Calls(ret))
       => /\ ret.err = ErrProduce
          /\ ret.msg = NilMessage
          /\ \/ "UpdateMessageStatus:ok" \in Calls(ret)
             \/ "UpdateMessageStatus:err" \in Calls(ret)

\* C9 witness: SendTemplateMessage has returned the Produce error after
\* the follow-up write failed as well.
C9_Witness ==
    /\ ret.op = "SendTemplateMessage"
    /\ ret.calls = <<"CreateMessage:ok", "Produce:err", "UpdateMessageStatus:err">>
    /\ ret.err = ErrProduce

\* C10 as stated: for a job whose record was read in status `queued` and
\* whose gateway call answered with identifier X, ProcessQueueMessage
\* returns having written `processing` before the gateway call and leaving
\* the record in status `sent` with externalId X.
C10_QueuedJobEndsSent ==
    [][(con.pc = "sent" /\ con.status = "queued" /\ con'.pc = "idle")
          => /\ con.log = <<"processing:ok", "Gateway:ok">>
             /\ messages'[con.id].status = "sent"
             /\ messages'[con.id].externalId = con.resp]_vars

\* C10 as amended: for such a job, the write of `processing` puts the
\* record in status `processing` before the gateway is called, and when the
\* write of `sent` succeeds ProcessQueueMessage returns nil leaving the
\* record in status `sent` with externalId X; when that write fails it
\* returns the error and leaves the record as the write found it.
C10_QueuedJobEndsSentIfWritten ==
    [][/\ (con.pc = "processing" /\ con.status = "queued" /\ con'.pc = "gateway")
          => messages'[con.id].status = "processing"
       /\ (con.pc = "sent" /\ con.status = "queued" /\ con'.pc = "idle")
          => /\ con.log = <<"processing:ok", "Gateway:ok">>
             /\ con.resp # ""
             /\ IF ret'.err = NoErr
                THEN /\ messages'[con.id].status = "sent"
                     /\ messages'[con.id].externalId = con.resp
                ELSE messages' = messages]_vars

\* C10 witness: ProcessQueueMessage has returned nil on the first delivery
\* of the job of row 1, which is `sent` with the first identifier the
\* gateway assigned.
C10_Witness ==
    /\ ret.op = "ProcessQueueMessage"
    /\ ret.err = NoErr
    /\ ret.calls = <<"processing:ok", "Gateway:ok", "sent:ok">>
    /\ redelivered = 0
    /\ nextSid = 2
    /\ messages[1].status = "sent"
    /\ messages[1].externalId = Sid(1)

\* C11 as stated: when the gateway call returned an error,
\* ProcessQueueMessage returns that error leaving the record in status
\* `failed` with the gateway's error text as errorMessage and its
\* externalId as it was.
C11_GatewayErrorEndsFailed ==
    [][(con.pc = "failed" /\ con'.pc = "idle")
          => /\ ret'.op = "ProcessQueueMessage"
             /\ ret'.err = con.gwerr
             /\ messages'[con.id].status = "failed"
             /\ messages'[con.id].errorMessage = con.gwerr
             /\ messages'[con.id].externalId = messages[con.id].externalId]_vars

\* C11 as amended: when the gateway call returned an error,
\* ProcessQueueMessage returns that error and writes no externalId; when
\* the write of `failed` succeeds the record is `failed` with the gateway's
\* error text as errorMessage, and when that write fails the record is left
\* as the write found it.
C11_GatewayErrorEndsFailedIfWritten ==
    [][(con.pc = "failed" /\ con'.pc = "idle")
          => /\ ret'.op = "ProcessQueueMessage"
             /\ ret'.err = con.gwerr
             /\ con.gwerr = ErrGateway
             /\ messages'[con.id].externalId = messages[con.id].externalId
             /\ IF "failed:ok" \in Calls(ret')
                THEN /\ messages'[con.id].status = "failed"
                     /\ messages'[con.id].errorMessage = con.gwerr
                ELSE messages' = messages]_vars

\* C11 witness: ProcessQueueMessage has returned the gateway error after
\* writing `failed`, and the record holds the error text and no externalId.
C11_Witness ==
    /\ ret.op = "ProcessQueueMessage"
    /\ ret.err = ErrGateway
    /\ ret.calls = <<"processing:ok", "Gateway:err", "failed:ok">>
    /\ \E i \in DOMAIN messages :
          /\ messages[i].status = "failed"
          /\ messages[i].errorMessage = ErrGateway
          /\ messages[i].externalId = ""

\* C12: a status entry of a ProcessWebhook batch whose externalId no record
\* holds changes no record and does not end the batch: the lookup error
\* that UpdateMessageStatus reports is dropped, the loop goes on to its
\* next entry, and the batch, once in its loop, returns nil.
C12_UnmatchedEventChangesNothing ==
    [][/\ (/\ web.pc = "lookup"
           /\ web' # web
           /\ \A i \in DOMAIN messages : messages[i].externalId # web.externalId)
          => /\ messages' = messages
             /\ web' = NextEntry
             /\ ret'.op = "UpdateMessageStatus"
             /\ ret'.err \in {IF web.externalId = "" THEN ErrExternalIDRequired
                               ELSE ErrNotFound,
                               ErrDatabase}
       /\ (web.pc = "loop" /\ web'.pc = "idle")
          => (ret'.op = "ProcessWebhook" /\ ret'.err = NoErr)]_vars

\* C12 witness: ProcessWebhook has returned nil, an event of a batch is on
\* the topic, and no record has ever held an externalId: the event matched
\* no record and the records are as they were.
C12_Witness ==
    /\ ret = WebhookReturn(NoErr)
    /\ web = WebIdle
    /\ messages # <<>>
    /\ \A i \in DOMAIN messages : messages[i].externalId = ""
    /\ \E k \in DOMAIN queue : queue[k] = EventPayload("wamid.0")

\* C13: a ProcessWebhook status entry whose provider token is not a mapped
\* one (the entries whose mapped status is `unknown`) is dropped: the write
\* of a batch never turns the status of the record it matched into
\* `unknown`.
C13_UnmappedTokenDropped ==
    [][(web.pc = "update" /\ web.via = "http" /\ web' # web)
          => (messages'[web.id].status = "unknown"
                 => messages[web.id].status = "unknown")]_vars

\* The table of provider tokens: sent, delivered, read and failed map to
\* themselves, undelivered to failed, every other token to the dropped
\* outcome `unknown`.
ProviderTable(token) ==
    CASE token = "sent" -> "sent"
      [] token = "delivered" -> "delivered"
      [] token = "read" -> "read"
      [] token = "failed" -> "failed"
      [] token = "undelivered" -> "failed"
      [] OTHER -> "unknown"

\* C14: every provider token the reconciler has mapped was mapped as the
\* table says: sent, delivered, read and failed to themselves, undelivered
\* to failed, any other token to `unknown`.
C14_MappingEqualsTable ==
    \A k \in DOMAIN web.statuses :
       web.statuses[k] = ProviderTable(web.tokens[k])

\* C15: within one ProcessWebhook batch an entry that fails (its Produce
\* fails, its externalId is empty or matches no record) changes no record
\* and leaves the loop at its next entry; the batch ends only when no entry
\* is left, returning nil; and an entry whose Produce, lookup and write
\* succeed is applied to the record it matched.
C15_FailedEntryKeepsBatchGoing ==
    [][/\ (web.pc = "lookup" /\ web' # web /\ web'.pc # "update")
          => /\ web' = NextEntry
             /\ messages' = messages
             /\ ret'.op = "UpdateMessageStatus"
             /\ ret'.err # NoErr
       /\ (web.via = "http" /\ web.pc # "idle" /\ web'.pc = "idle")
          => /\ web.pc = "loop"
             /\ ret' = WebhookReturn(NoErr)
       /\ (web.pc = "update" /\ web.via = "http" /\ web' # web /\ ret'.err = NoErr)
          => /\ web' = NextEntry
             /\ messages'[web.id].status \in {mapMetaStatus(t) : t \in MetaTokens}
             /\ messages'[web.id].externalId = web.externalId]_vars

\* C15 witness: an entry of a batch has just failed its lookup, the loop is
\* at its next entry and a record is there for a sibling entry to match.
C15_Witness ==
    /\ web = NextEntry
    /\ ret = UpdateReturn(ErrNotFound)
    /\ \E i \in DOMAIN messages : messages[i].externalId # ""

\* C16: in every reachable state a record whose errorMessage is not empty
\* has status `failed`.
C16_ErrorMessageOnlyWhenFailed ==
    \A i \in DOMAIN messages :
       messages[i].errorMessage # "" => messages[i].status = "failed"

\* C17: in every reachable state every record's status is one of queued,
\* processing, sent, delivered, read, failed.
C17_StatusIsCanonical ==
    \A i \in DOMAIN messages :
       messages[i].status \in Ranked \cup {"failed"}

\* C19: while the reconciler is between its lookup and its write on a
\* record and the consumer's send step is at work on the same record, the
\* write of either is guarded by the record's current status: it never
\* leaves the record with a status lower in the ordering than the one it
\* held.
C19_ConcurrentWritesAreGuarded ==
    [][(/\ web.pc = "update"
        /\ con.pc \in {"processing", "gateway", "sent", "failed"}
        /\ con.id = web.id
        /\ messages[web.id].status \in Ranked
        /\ messages'[web.id].status \in Ranked)
          => Rank(messages'[web.id].status) >= Rank(messages[web.id].status)]_vars

\* C20: the consumer loop hands each payload it receives to the handler
\* once: a read puts the head of the topic before the handler, the handler
\* takes it and is not entered again for it, and when the handler returns,
\* with an error or without, the loop is back at its read with the topic as
\* it was.
C20_HandlerOncePerPayload ==
    [][/\ (con.pc = "idle" /\ con' # con)
          => /\ con'.pc = "handle"
             /\ queue # <<>>
             /\ con'.payload = <<Head(queue)>>
       /\ (con.pc = "handle" /\ con' # con)
          => /\ con'.pc \in {"processing", "idle"}
             /\ con'.payload = <<>>
       /\ (con.pc # "idle" /\ ret'.op = "ProcessQueueMessage")
          => /\ con' = ConIdle
             /\ queue' = queue]_vars

\* C20 witness: the handler has returned an error and the loop is back at
\* its read with a further payload on the topic.
C20_Witness ==
    /\ ret.op = "ProcessQueueMessage"
    /\ ret.err # NoErr
    /\ con = ConIdle
    /\ queue # <<>>

\* C18: with the consumer loop running and no repository call failing,
\* every message for which SendTemplateMessage returned success eventually
\* has a status other than `queued` and `processing`.
C18_SubmittedIsEventuallySettled ==
    \A i \in 1..MaxMessages :
       (ret.op = "SendTemplateMessage" /\ ret.err = NoErr /\ ret.msg.id = i)
          ~> (/\ i \in DOMAIN messages
              /\ messages[i].status \notin {"queued", "processing"})

\* C18 witness: the handler has returned nil for a submitted message,
\* which is `sent`.
C18_Witness ==
    /\ ret.op = "ProcessQueueMessage"
    /\ ret.err = NoErr
    /\ \E i \in DOMAIN messages : messages[i].status = "sent"

\* C21: once the context of Consume is cancelled, Consume eventually
\* returns, and from the cancellation on it reads no further payload.
C21_CancelledConsumeReturns ==
    /\ (ctx = "cancelled") ~> (con.pc = "returned")
    /\ [][ctx = "cancelled" => ~(con.pc = "idle" /\ con'.pc = "handle")]_vars

\* C21 witness: Consume has returned the context's error while a payload
\* is still unread on the topic.
C21_Witness ==
    /\ ctx = "cancelled"
    /\ con.pc = "returned"
    /\ ret.op = "Consume"
    /\ queue # <<>>

\* C22: a webhook request whose signature is not the one of its body has
\* none of its status entries processed: it never reaches the loop that
\* enqueues an event and updates the record of each entry.
C22_InvalidSignatureChangesNothing ==
    (web.request.signature # SignatureOfBody)
       => (web.pc # "loop" /\ web.statuses = <<>>)

\* C23: a repository write with an empty errorMessage leaves the stored
\* errorMessage as it was, one with an empty externalID leaves the stored
\* externalId as it was, and the status is always written: the write of
\* `processing` (both empty) changes the status only, the write of `sent`
\* (empty errorMessage) the status and the externalId, the write of
\* `failed` (empty externalID) the status and the errorMessage; no other
\* row changes.
C23_EmptyOptionalsKeepColumns ==
    [][/\ (con.pc = "processing" /\ con'.pc = "gateway")
          => messages' = [messages EXCEPT ![con.id].status = "processing"]
       /\ (con.pc = "sent" /\ con' # con /\ "sent:ok" \in Calls(ret'))
          => messages' = [messages EXCEPT ![con.id].status = "sent",
                                          ![con.id].externalId = con.resp]
       /\ (con.pc = "failed" /\ con' # con /\ "failed:ok" \in Calls(ret'))
          => messages' = [messages EXCEPT ![con.id].status = "failed",
                                          ![con.id].errorMessage = con.gwerr]]_vars

\* C23 witness: `processing` has been written, with both optional arguments
\* empty, on a row that held an externalId and an error text.
C23_Witness ==
    /\ con.pc = "gateway"
    /\ messages[con.id].status = "processing"
    /\ messages[con.id].externalId # ""
    /\ messages[con.id].errorMessage # ""

\* The number of times the text starts with the provider prefix, one after
\* the other.
RECURSIVE LeadingPrefixes(_)
LeadingPrefixes(phoneNumber) ==
    IF HasWhatsAppPrefix(phoneNumber)
    THEN 1 + LeadingPrefixes(SubSeq(phoneNumber, Len(WhatsAppPrefix) + 1,
                                    Len(phoneNumber)))
    ELSE 0

\* C24: the phone number a submission stores carries the prefix `whatsapp:`
\* exactly once: it is the number passed in when that has the prefix and
\* the prefix followed by it otherwise, and submitting the stored number
\* again stores the same number.
C24_PrefixExactlyOnce ==
    /\ \A k \in DOMAIN sub.stored : LeadingPrefixes(sub.stored[k]) = 1
    /\ Len(sub.stored) >= 1
       => sub.stored[1] = IF HasWhatsAppPrefix(sub.phoneNumber)
                          THEN sub.phoneNumber
                          ELSE WhatsAppPrefix \o sub.phoneNumber
    /\ Len(sub.stored) = 2 => sub.stored[2] = sub.stored[1]

\* C25: the gateway is sent the phone number, template and parameters of
\* the record ProcessQueueMessage reloaded by id, whatever snapshot the
\* payload carried.
C25_GatewayGetsStoredRecord ==
    [][(con.pc = "gateway" /\ con' # con)
          => /\ con'.request = StoredContent(con.id)
             /\ con'.request = con.msg]_vars

\* C25 witness: the gateway was sent the stored values for a job whose
\* snapshot differs from them.
C25_Witness ==
    /\ con.pc \in {"sent", "failed"}
    /\ con.snapshot # StoredContent(con.id)
    /\ con.request = StoredContent(con.id)

\* C26: the gateway is invoked only once the write of `processing` has
\* succeeded; when that write fails the gateway is not invoked, no record
\* changes and ProcessQueueMessage returns the error.
C26_GatewayOnlyAfterProcessing ==
    [][/\ (con'.pc = "gateway" /\ con.pc # "gateway")
          => /\ con.pc = "processing"
             /\ con'.log = Append(con.log, "processing:ok")
             /\ messages'[con.id].status = "processing"
       /\ (con.pc = "gateway" /\ con' # con)
          => /\ con.log[Len(con.log)] = "processing:ok"
             /\ con'.pc \in {"sent", "failed"}
       /\ (con.pc = "processing" /\ con' # con /\ con'.pc # "gateway")
          => /\ messages' = messages
             /\ nextSid' = nextSid
             /\ con' = ConIdle
             /\ ret'.op = "ProcessQueueMessage"
             /\ ret'.err = ErrDatabase
             /\ Calls(ret') \cap {"Gateway:ok", "Gateway:err"} = {}]_vars

\* C26 witness: the write of `processing` failed and ProcessQueueMessage
\* returned its error without a gateway call; the record is still `queued`.
C26_Witness ==
    /\ ret.op = "ProcessQueueMessage"
    /\ ret.err = ErrDatabase
    /\ "processing:err" \in Calls(ret)
    /\ "Gateway:ok" \notin Calls(ret)
    /\ \E i \in DOMAIN messages : messages[i].status = "queued"

\* C27: when the payload cannot be decoded, or no record exists for the
\* id it decodes to, ProcessQueueMessage invokes no gateway, writes to no
\* record and returns an error: the decoding error in the first case, the
\* error of GetMessageByID in the second.
C27_UndecodableOrUnknownDoesNothing ==
    [][(/\ con.pc = "handle"
        /\ con' # con
        /\ \/ con.payload[1].type = "malformed"
           \/ DecodeMessageID(con.payload[1]) \notin DOMAIN messages)
          => /\ messages' = messages
             /\ nextSid' = nextSid
             /\ con' = ConIdle
             /\ ret'.op = "ProcessQueueMessage"
             /\ ret'.err \in IF con.payload[1].type = "malformed"
                             THEN {ErrUnmarshal}
                             ELSE {ErrNotFound, ErrDatabase}
             /\ ret'.calls = <<>>]_vars

\* C27 witness: ProcessQueueMessage has returned the decoding error for
\* bytes that are not JSON, while a record exists.
C27_Witness ==
    /\ ret.op = "ProcessQueueMessage"
    /\ ret.err = ErrUnmarshal
    /\ ret.calls = <<>>
    /\ messages # <<>>

\* C28: when a status write of ProcessQueueMessage fails (the write of
\* `processing`, of `sent` or of `failed`), ProcessQueueMessage returns a
\* non-nil error to Consume: the error of the write for `processing` and
\* `sent`, the gateway's error for `failed`; no record changes and the
\* gateway send that took place stays as it was.
C28_WriteFailureIsReturned ==
    [][(Calls(ret') \cap {"processing:err", "sent:err", "failed:err"} # {})
          => /\ ret'.op = "ProcessQueueMessage"
             /\ ret'.err # NoErr
             /\ ret'.err = IF "failed:err" \in Calls(ret')
                           THEN con.gwerr ELSE ErrDatabase
             /\ messages' = messages
             /\ nextSid' = nextSid
             /\ con' = ConIdle
             /\ ("sent:err" \in Calls(ret')) => ("Gateway:ok" \in Calls(ret'))]_vars

\* C28 witness: the write of `sent` failed after the gateway had accepted
\* the send; the error was returned and the record is still `processing`.
C28_Witness ==
    /\ ret.op = "ProcessQueueMessage"
    /\ "sent:err" \in Calls(ret)
    /\ ret.err = ErrDatabase
    /\ nextSid > 1
    /\ \E i \in DOMAIN messages : messages[i].status = "processing"

\* C29: every status entry the loop of ProcessWebhook takes up goes on to
\* its one status update, by the entry's externalId.
C29_OneUpdatePerEntry ==
    [][(/\ web.pc = "loop"
        /\ web' # web \/ ret'.op = "Produce"
        /\ ret'.op # "ProcessWebhook")
          => /\ web'.pc = "lookup"
             /\ web'.externalId \in CallbackIds]_vars

\* C30: the consumer takes a payload off the topic only when no handler
\* call is running: a handler call starts from the idle loop only, and
\* while one runs no payload is read and no other call starts.
C30_HandlerRunsSequentially ==
    [][/\ (con'.pc = "handle" /\ con' # con)
          => /\ con.pc = "idle"
             /\ Len(con'.payload) = 1
       /\ (con.pc \notin {"idle", "returned"})
          => /\ Len(queue') >= Len(queue)
             /\ redelivered' = redelivered
             /\ con' # con => con'.pc \in {"processing", "gateway", "sent",
                                           "failed", "idle"}]_vars

\* C30 witness: a handler call is at the gateway while the next payload
\* waits on the topic.
C30_Witness ==
    /\ con.pc = "gateway"
    /\ queue # <<>>

\* C31: a ProcessQueueMessage call that has written `processing` and is in
\* flight when the context is cancelled still completes: its final write
\* succeeds and leaves the record `sent` or `failed`.
C31_InFlightCallCompletes ==
    [][(/\ ctx = "cancelled"
        /\ con.pc \in {"gateway", "sent", "failed"}
        /\ con'.pc = "idle")
          => /\ Calls(ret') \cap {"sent:ok", "failed:ok"} # {}
             /\ messages'[con.id].status \in {"sent", "failed"}]_vars

\* C32: the gateway is invoked at most once per message record, also when
\* the record's job is delivered to ProcessQueueMessage more than once: the
\* gateway is never called for a record that already carries the identifier
\* an earlier gateway call assigned to it.
C32_GatewayAtMostOncePerRecord ==
    [][(con.pc = "gateway" /\ con'.pc \in {"sent", "failed"})
          => messages[con.id].externalId = ""]_vars

\* C33: whenever SendTemplateMessage returns a Message without error, a job
\* payload carrying that Message's id has just been accepted by Produce.
C33_ReturnedSubmissionIsQueued ==
    [][(/\ sub.pc = "produce"
        /\ ret'.op = "SendTemplateMessage"
        /\ ret'.err = NoErr)
          => /\ ret'.msg # NilMessage
             /\ "Produce:ok" \in Calls(ret')
             /\ Len(queue') = Len(queue) + 1
             /\ SubSeq(queue', 1, Len(queue)) = queue
             /\ DecodeMessageID(queue'[Len(queue')]) = ret'.msg.id]_vars

\* A submission has returned its Message and the job with its id is the
\* newest payload of the topic.
C33_Witness ==
    /\ ret.op = "SendTemplateMessage"
    /\ ret.err = NoErr
    /\ ret.msg # NilMessage
    /\ queue # <<>>
    /\ DecodeMessageID(queue[Len(queue)]) = ret.msg.id

\* The callback in hand carries identifier x, which the gateway has
\* returned to a sendMessage call that has not yet written `sent`.
CallbackBeforeSentWrite(x) ==
    /\ web.pc = "lookup"
    /\ web.externalId = x
    /\ con.pc = "sent"
    /\ con.resp = x

\* The callback that carries x has reached its write on a record, or a
\* record that carries x is `delivered` or `read`.
CallbackTakesEffect(x) ==
    \/ web.pc = "update" /\ web.externalId = x
    \/ \E i \in DOMAIN messages :
          /\ messages[i].externalId = x
          /\ messages[i].status \in {"delivered", "read"}

\* C34: a callback (X, delivered) that is processed after the gateway
\* returned X but before the pipeline's write of `sent` with externalId X
\* still takes effect: it reaches its write on the record, whose status
\* becomes `delivered` or later.
C34_EarlyCallbackTakesEffect ==
    \A n \in 1..Len(SidTable) :
       CallbackBeforeSentWrite(Sid(n)) ~> CallbackTakesEffect(Sid(n))

\* C35: a reconciliation event that the consumer hands to
\* ProcessQueueMessage decodes to message id 0, for which no record exists;
\* the call returns an error without a gateway send or a record change.
C35_EventOnTopicDoesNothing ==
    [][(/\ con.pc = "handle"
        /\ con.payload[1].type = "WebhookEvent"
        /\ con' # con)
          => /\ DecodeMessageID(con.payload[1]) = 0
             /\ ~HasMessage(messages, 0)
             /\ messages' = messages
             /\ nextSid' = nextSid
             /\ con' = ConIdle
             /\ ret'.op = "ProcessQueueMessage"
             /\ ret'.err \in {ErrNotFound, ErrDatabase}
             /\ ret'.calls = <<>>]_vars

\* C35 witness: with a record in the table, ProcessQueueMessage has
\* returned "message not found" for a payload of the topic, which in Spec
\* only an event brings about, and the record is as it was created.
C35_Witness ==
    /\ ret.op = "ProcessQueueMessage"
    /\ ret.err = ErrNotFound
    /\ Len(messages) = 1
    /\ messages[1] = NewRow

\* C36: ProcessWebhook goes to the direct status update of an event only
\* from the Produce call that accepted that event; when Produce fails for
\* an event no record changes and the loop is at its next entry; and the
\* HTTP path changes a record only in the update it reached that way.
C36_UpdateOnlyAfterProduceAccepted ==
    [][/\ (web'.pc = "lookup" /\ web.pc # "lookup")
          => /\ web.pc = "loop"
             /\ queue' = Append(queue, EventPayload(web'.externalId))
             /\ messages' = messages
       /\ (web.pc = "loop" /\ ret'.op = "Produce" /\ ret'.err # NoErr)
          => /\ queue' = queue
             /\ messages' = messages
             /\ web' = NextEntry
       /\ (web.via = "http" /\ web' # web /\ messages' # messages)
          => web.pc = "update"]_vars

\* C36 witness: Produce has just failed for an entry of a batch while a
\* record that a callback could match is in the table; the loop is at its
\* next entry.
C36_Witness ==
    /\ ret = ProduceReturn(ErrProduce)
    /\ web = NextEntry
    /\ \E i \in DOMAIN messages : messages[i].externalId # ""

\* C37: ProcessWebhook called with an empty signature returns the
\* missing-signature error, and called with a payload whose object is not
\* `whatsapp_business_account` returns nil; in both cases it returns
\* before its loop, so that no status entry of the body is taken up: no
\* Produce call, no record read or written.
C37_RejectedRequestHasNoEffect ==
    /\ (web.pc # "start" /\ web.request.signature = "")
          => /\ web.pc = "idle"
             /\ ret = WebhookReturn(ErrMissingSignature)
             /\ web.statuses = <<>>
             /\ messages = <<>>
             /\ queue = <<>>
    /\ (/\ web.pc # "start"
        /\ web.request.signature # ""
        /\ web.request.bodyOk
        /\ web.request.object # "whatsapp_business_account")
          => /\ web.pc = "idle"
             /\ ret = WebhookReturn(NoErr)
             /\ web.statuses = <<>>
             /\ messages = <<>>
             /\ queue = <<>>

\* C37 witness: a request about another object, whose body holds status
\* entries, has returned nil with none of them taken up.
C37_Witness ==
    /\ web.pc = "idle"
    /\ web.request.object = "page"
    /\ web.tokens # <<>>
    /\ web.statuses = <<>>
    /\ ret = WebhookReturn(NoErr)

\* C38: Consume returns only when its context is cancelled, and then with
\* the context's error; a read that fails while the context is live is
\* logged and the loop is back at ReadMessage, with nothing else changed.
C38_ConsumeReturnsOnlyOnCancel ==
    [][/\ (con'.pc = "returned" /\ con.pc # "returned")
          => /\ ctx = "cancelled"
             /\ ret' = ConsumeReturned(ErrCanceled)
       /\ (ret' = ReadFailed(ErrRead) /\ ctx = "live")
          => /\ AtReadMessage(con')
             /\ con' = con
             /\ queue' = queue
             /\ messages' = messages]_vars

\* C38 witness: a read has just failed under a live context and the loop
\* is at ReadMessage again, with a payload still unread on the topic.
C38_Witness ==
    /\ ret = ReadFailed(ErrRead)
    /\ ctx = "live"
    /\ AtReadMessage(con)
    /\ queue # <<>>

====
